---- MODULE Spec2Model ----
(***************************************************************************)
(* A model of the acord gateway client: the Shard session                  *)
(* (acord/client/shard.py), the websocket handler                          *)
(* (acord/client/handler.py), the gateway error classes (acord/errors.py)  *)
(* and, from the design document, the gateway rate limiter that every      *)
(* control frame passes through.                                           *)
(*                                                                         *)
(* A coroutine is a task with a program counter; one action is the code    *)
(* between two awaits.                                                     *)
(***************************************************************************)
EXTENDS Integers, Sequences, FiniteSets, TLC

(***************************************************************************)
(* Bounds                                                                  *)
(***************************************************************************)
NumShards == 2      \* shard sessions of the client
NumTasks == 2       \* caller tasks; see ShardOf
Limit == 2          \* frames a bucket admits per window
MaxConn == 2        \* sockets a shard opens
MaxSeq == 3         \* dispatch frames the gateway sends a session
MaxId == 2          \* guild and channel ids
NumVers == 2        \* distinct payloads an entity is sent with
MaxNumShards == 3   \* num_shards a Shard is constructed with
MaxHigh == 3        \* the bits of a guild id above the shift
MaxArrive == 3      \* frames that arrive at one socket

(***************************************************************************)
(* Values                                                                  *)
(***************************************************************************)
\* Python's None (and JSON null) where an int or a socket is expected; kept
\* apart from every socket number, identifier and sequence number (all >= 0).
None == -1

\* acord.core.signals.gateway: the op codes of the wire protocol.
IDENTIFY == 2
PRESENCE == 3
VOICE == 4
RESUME == 6
INVALIDSESSION == 9
HELLO == 10
HEARTBEATACK == 11
DISPATCH == 0
HEARTBEAT == 1

\* the close code of ws.close(code=4000)
CloseCode == 4000

Shards == 0 .. (NumShards - 1)
Tasks == 1 .. NumTasks

\* the shard whose methods a task calls: the first two tasks share shard 0
\* (and so its bucket), the others are spread over the remaining shards
ShardOf(t) == IF t <= 2 THEN 0 ELSE (t - 2) % NumShards

SessionIds == {"abc", "xyz"}
NoSession == "None"     \* None where a session id string is expected
Sequences == {42}
Intervals == {41250, 45000}

\* Shard.ratelimit_key
ratelimit_key(s) == s % NumShards

Keys == {ratelimit_key(s) : s \in Shards}

ControlOps == {IDENTIFY, RESUME, PRESENCE, VOICE}

VARIABLES
    \* ---- Shard (one per shard id)
    ws,             \* Shard.ws: None, or the number of the socket it holds
    open,           \* shard -> the sockets of the shard that are open
    closedWith,     \* shard -> set of <<socket, close code>> the client closed
    sequence,       \* Shard.sequence
    session_id,     \* Shard.session_id
    resuming,       \* Shard.resuming
    wire,           \* the last control frame written, with its shard and socket
    keep_alive,     \* Shard._keep_alive
    task,           \* Shard.task: the listen task and the socket it reads
    helloRes,       \* shard -> the last receive_hello: frames read, frame, result
    \* ---- caller tasks
    pc,             \* task -> where it stands in its coroutine
    op,             \* task -> the control op it is sending
    outcome,        \* task -> how its last call ended
    fresh,          \* task -> its increment was made in the bucket's current window
    prev,           \* task -> the socket its resume(restart=True) closed
    \* ---- GatewayRatelimiter
    lockHolder,     \* the task inside "async with ratelimiter", or 0
    count,          \* key -> increments in the current window
    sentNow,        \* key -> frames written during the current window
    sentFresh,      \* key -> of those, the ones also admitted in it
    \* ---- the handler's receiver (the client) and acord.core.signals.gateway
    gwSequence,     \* gateway.SEQUENCE
    client,         \* self.session_id, self.gateway_version, self.user
    storage,        \* self.INTERNAL_STORAGE
    last,           \* the frame handled last: its shard and what it dispatched
    atReady,        \* what the subscriber of "ready" found stored when it ran
    \* ---- the gateway
    srvSeq,         \* shard -> the sequence number of the last dispatch frame sent
    listed,         \* shard -> guild ids its READY listed, no GUILD_CREATE since
    \* ---- contains_guild
    own,            \* a guild id, a num_shards, and what each shard_id answered
    \* ---- GatewayKeepAlive
    hb,             \* shard -> the state of its heartbeat monitor
    \* ---- wait_until_ready
    ready_event,    \* Shard.ready_event: is the event set
    waiter,         \* shard -> how a wait_until_ready() call on it stands
    \* ---- the socket's receive queue
    inbox,          \* shard -> frames that arrived and the loop has not taken
    done            \* shard -> the frames the loop has handled, in that order

shardVars == <<ws, open, closedWith, sequence, session_id, resuming, wire,
               keep_alive, task, helloRes>>
taskVars == <<pc, op, outcome, fresh, prev>>
limiterVars == <<lockHolder, count, sentNow, sentFresh>>
handlerVars == <<gwSequence, client, storage, last, atReady, srvSeq, listed>>
readyVars == <<ready_event, waiter>>
queueVars == <<inbox, done>>
extraVars == <<own, hb, readyVars, queueVars>>
vars == <<shardVars, taskVars, limiterVars, handlerVars, extraVars>>

NoFrame == [op |-> None, a |-> NoSession, b |-> None, shard |-> None, sock |-> None]

\* no attribute _keep_alive / task yet
NoKeepAlive ==
    [set |-> FALSE, interval |-> None, started |-> FALSE, ended |-> FALSE,
     sock |-> None]
NoTask == [state |-> "unset", sock |-> None, exc |-> "none"]

\* JSON and Python values: the string "n" and the int n are different values
Str(n) == [ty |-> "str", v |-> n]
Num(n) == [ty |-> "int", v |-> n]
NoId == [ty |-> "none", v |-> None]
\* int(x)
ToInt(x) == [ty |-> "int", v |-> x.v]

Ids == 1 .. MaxId
Vers == 1 .. NumVers
RawIds == {Str(n) : n \in Ids} \cup {Num(n) : n \in Ids}

\* an entity of the model layer, and no entity
Entity(kind, id, ver) == [kind |-> kind, id |-> id, ver |-> ver, last |-> None]
NoEntity == [kind |-> "none", id |-> None, ver |-> None, last |-> None]

\* a decoded frame: data["op"], data["t"], data["s"] and, of data["d"], the
\* keys the handler reads; kind "empty" is a message without data, kind "bare"
\* a JSON object that lacks the envelope keys "t" and "s"
Body(kind, o, t, id, ver, unav, sid, guilds, chan) ==
    [kind |-> kind, op |-> o, t |-> t, s |-> None, id |-> id, ver |-> ver,
     unavailable |-> unav, session_id |-> sid, guilds |-> guilds, channel_id |-> chan]
Event(t, id, ver, unav) ==
    Body("json", DISPATCH, t, id, ver, unav, NoSession, {}, NoId)

\* what a subscriber finds on the receiver and in the user cache
View(c, sto) ==
    [session_id |-> c.session_id, gateway_version |-> c.gateway_version,
     users |-> DOMAIN sto.users]
NoView == [session_id |-> NoSession, gateway_version |-> None, users |-> {}]

\* no guild asked about yet
NoQuery == [guild_id |-> None, num_shards |-> 1, answers |-> [i \in {0} |-> {}]]

NoHello == [read |-> 0, op |-> None, interval |-> None, result |-> "none"]

\* Shard.__init__ and the limiter as constructed
Init ==
    /\ ws = [s \in Shards |-> None]
    /\ open = [s \in Shards |-> {}]
    /\ keep_alive = [s \in Shards |-> NoKeepAlive]
    /\ task = [s \in Shards |-> NoTask]
    /\ helloRes = [s \in Shards |-> NoHello]
    /\ prev = [t \in Tasks |-> None]
    /\ closedWith = [s \in Shards |-> {}]
    /\ sequence = [s \in Shards |-> None]
    /\ session_id = [s \in Shards |-> NoSession]
    /\ resuming = [s \in Shards |-> FALSE]
    /\ wire = NoFrame
    /\ pc = [t \in Tasks |-> "idle"]
    /\ op = [t \in Tasks |-> None]
    /\ outcome = [t \in Tasks |-> [call |-> "none", result |-> "none"]]
    /\ fresh = [t \in Tasks |-> FALSE]
    /\ lockHolder = 0
    /\ count = [k \in Keys |-> 0]
    /\ sentNow = [k \in Keys |-> 0]
    /\ sentFresh = [k \in Keys |-> 0]
    /\ gwSequence = None
    /\ client = [session_id |-> NoSession, gateway_version |-> None, user |-> NoEntity]
    /\ storage = [users |-> <<>>, guilds |-> <<>>, channels |-> <<>>, messages |-> <<>>]
    /\ last = [shard |-> None, events |-> <<>>]
    /\ atReady = NoView
    /\ srvSeq = [s \in Shards |-> 0]
    /\ listed = [s \in Shards |-> {}]
    /\ own = NoQuery
    /\ hb = [s \in Shards |-> "Idle"]
    /\ ready_event = [s \in Shards |-> FALSE]
    /\ waiter = [s \in Shards |-> "none"]
    /\ inbox = [s \in Shards |-> <<>>]
    /\ done = [s \in Shards |-> <<>>]

\* the socket Shard.ws holds is open
IsOpen(s) == ws[s] \in open[s]

(***************************************************************************)
(* GatewayRatelimiter                                                      *)
(***************************************************************************)
\* lock.exceeded(key)
exceeded(k) == count[k] >= Limit

\* lock.increment(key, lock_if_exceed=True)
increment(k) == [count EXCEPT ![k] = @ + 1]

\* the bucket's window expires: the counter is 0 again
WindowElapse(k) ==
    /\ count' = [count EXCEPT ![k] = 0]
    /\ sentNow' = [sentNow EXCEPT ![k] = 0]
    /\ sentFresh' = [sentFresh EXCEPT ![k] = 0]
    /\ fresh' = [t \in Tasks |->
                    IF ratelimit_key(ShardOf(t)) = k THEN FALSE ELSE fresh[t]]
    /\ UNCHANGED <<shardVars, pc, op, outcome, prev, lockHolder, handlerVars, extraVars>>

(***************************************************************************)
(* Shard.connect                                                           *)
(***************************************************************************)
Connect(s) ==
    /\ ws[s] < MaxConn
    /\ ws' = [ws EXCEPT ![s] = IF @ = None THEN 1 ELSE @ + 1]
    /\ open' = [open EXCEPT ![s] = @ \cup {ws'[s]}]
    /\ UNCHANGED <<closedWith, sequence, session_id, resuming, wire,
                   keep_alive, task, helloRes, taskVars, limiterVars, handlerVars, extraVars>>

(***************************************************************************)
(* The rate-limited send path of send_identity, resume, change_presence    *)
(* and update_voice_state                                                  *)
(***************************************************************************)
\* the method that sends each control op
MethodOf(o) ==
    CASE o = IDENTIFY -> "send_identity"
      [] o = RESUME -> "resume"
      [] o = PRESENCE -> "change_presence"
      [] OTHER -> "update_voice_state"

\* the call: the payload is built and the task waits for the limiter
StartControl(t, o) ==
    /\ pc[t] = "idle"
    /\ pc' = [pc EXCEPT ![t] = "acquire"]
    /\ op' = [op EXCEPT ![t] = o]
    /\ outcome' = [outcome EXCEPT ![t] = [call |-> MethodOf(o), result |-> "none"]]
    /\ prev' = [prev EXCEPT ![t] = None]
    /\ UNCHANGED <<shardVars, fresh, limiterVars, handlerVars, extraVars>>

\* a sender that never asks the limiter whether the bucket is full
MustHoldNever(k) == FALSE

\* if lock.exceeded(self.ratelimit_key)
MustHold(k) == exceeded(k)

\* async with self.ratelimiter as lock: the body up to its first await
Acquire(t) ==
    LET k == ratelimit_key(ShardOf(t)) IN
    /\ pc[t] = "acquire"
    /\ lockHolder = 0
    /\ lockHolder' = t
    /\ IF MustHold(k)
       THEN /\ pc' = [pc EXCEPT ![t] = "hold"]
            /\ UNCHANGED <<count, fresh>>
       ELSE /\ pc' = [pc EXCEPT ![t] = "release"]
            /\ count' = increment(k)
            /\ fresh' = [fresh EXCEPT ![t] = TRUE]
    /\ UNCHANGED <<shardVars, op, outcome, prev, sentNow, sentFresh, handlerVars, extraVars>>

\* hold_until_reset called without being awaited: the increment follows at once
HoldReturnNoWait(t) ==
    LET k == ratelimit_key(ShardOf(t)) IN
    /\ pc[t] = "hold"
    /\ pc' = [pc EXCEPT ![t] = "release"]
    /\ count' = increment(k)
    /\ fresh' = [fresh EXCEPT ![t] = TRUE]
    /\ UNCHANGED <<shardVars, op, outcome, prev, lockHolder, sentNow, sentFresh, handlerVars, extraVars>>

\* await lock.hold_until_reset(key) returns, then lock.increment(...)
HoldReturn(t) ==
    LET k == ratelimit_key(ShardOf(t)) IN
    /\ pc[t] = "hold"
    /\ ~exceeded(k)
    /\ pc' = [pc EXCEPT ![t] = "release"]
    /\ count' = increment(k)
    /\ fresh' = [fresh EXCEPT ![t] = TRUE]
    /\ UNCHANGED <<shardVars, op, outcome, prev, lockHolder, sentNow, sentFresh, handlerVars, extraVars>>

\* the end of the async with block
Release(t) ==
    /\ pc[t] = "release"
    /\ lockHolder' = 0
    /\ pc' = [pc EXCEPT ![t] = "send"]
    /\ UNCHANGED <<shardVars, op, outcome, fresh, prev, count, sentNow, sentFresh, handlerVars, extraVars>>

\* the payload each control op puts on the wire
Payload(t) ==
    LET s == ShardOf(t) IN
    CASE op[t] = RESUME -> [op |-> RESUME, a |-> session_id[s], b |-> sequence[s],
                            shard |-> s, sock |-> ws[s]]
      [] OTHER -> [op |-> op[t], a |-> NoSession, b |-> None,
                   shard |-> s, sock |-> ws[s]]

\* self.ws.send_str(payload.json()) / send_json(...), outside the lock, by a
\* task that stands at "at"
SendAt(t, at) ==
    LET s == ShardOf(t)
        k == ratelimit_key(s) IN
    /\ pc[t] = at
    /\ pc' = [pc EXCEPT ![t] = "idle"]
    /\ fresh' = [fresh EXCEPT ![t] = FALSE]
    /\ resuming' = IF op[t] = RESUME THEN [resuming EXCEPT ![s] = TRUE] ELSE resuming
    /\ IF ws[s] = None
       THEN /\ outcome' = [outcome EXCEPT ![t].result = "AttributeError"]
            /\ UNCHANGED <<wire, sentNow, sentFresh>>
       ELSE IF ws[s] \notin open[s]
       THEN /\ outcome' = [outcome EXCEPT ![t].result = "ConnectionResetError"]
            /\ UNCHANGED <<wire, sentNow, sentFresh>>
       ELSE /\ outcome' = [outcome EXCEPT ![t].result = "sent"]
            /\ wire' = Payload(t)
            /\ sentNow' = [sentNow EXCEPT ![k] = @ + 1]
            /\ sentFresh' = [sentFresh EXCEPT ![k] = IF fresh[t] THEN @ + 1 ELSE @]
    /\ op' = [op EXCEPT ![t] = None]
    /\ UNCHANGED <<ws, open, closedWith, sequence, session_id, keep_alive, task,
                   helloRes, prev, lockHolder, count, handlerVars, extraVars>>

\* await self.ws.send_str(...) as one step
Send(t) == SendAt(t, "send")

\* await self.ws.send_str(...) in two steps: the call is entered and the task
\* is suspended in it, with no lock held
SendBegin(t) ==
    /\ pc[t] = "send"
    /\ IsOpen(ShardOf(t))
    /\ pc' = [pc EXCEPT ![t] = "sending"]
    /\ UNCHANGED <<shardVars, op, outcome, fresh, prev, limiterVars, handlerVars,
                   extraVars>>

\* ... and the call returns
SendEnd(t) == SendAt(t, "sending")

\* the tasks that are inside a send on the socket shard s holds
Writers(s) == {t \in Tasks : ShardOf(t) = s /\ pc[t] = "sending"}

(***************************************************************************)
(* Shard.receive_hello                                                     *)
(***************************************************************************)
\* the frames a socket may deliver first; op None stands for a frame without
\* an "op" key
HelloFrames ==
    [op : {HELLO}, interval : Intervals]
        \cup [op : {DISPATCH, HEARTBEATACK, INVALIDSESSION, None}, interval : {None}]

\* data.get("op", 0)
GetOp(f) == IF f.op = None THEN 0 ELSE f.op

\* a receive_hello that takes a frame without "op" for a Hello
ReceiveHelloLax(s, f) ==
    /\ IsOpen(s)
    /\ IF f.op \notin {HELLO, None}
       THEN /\ helloRes' = [helloRes EXCEPT ![s] =
                    [read |-> 1, op |-> f.op, interval |-> f.interval,
                     result |-> "GatewayError"]]
            /\ UNCHANGED keep_alive
       ELSE /\ helloRes' = [helloRes EXCEPT ![s] =
                    [read |-> 1, op |-> f.op, interval |-> f.interval,
                     result |-> "ok"]]
            /\ keep_alive' = [keep_alive EXCEPT ![s] =
                    [set |-> TRUE, interval |-> f.interval, started |-> TRUE,
                     ended |-> FALSE, sock |-> ws[s]]]
    /\ UNCHANGED <<ws, open, closedWith, sequence, session_id, resuming, wire,
                   task, taskVars, limiterVars, handlerVars, extraVars>>

\* packet = await self.ws.receive(), then the op check and the keep-alive
ReceiveHello(s, f) ==
    /\ IsOpen(s)
    /\ IF GetOp(f) # HELLO
       THEN /\ helloRes' = [helloRes EXCEPT ![s] =
                    [read |-> 1, op |-> f.op, interval |-> f.interval,
                     result |-> "GatewayError"]]
            /\ UNCHANGED keep_alive
       ELSE /\ helloRes' = [helloRes EXCEPT ![s] =
                    [read |-> 1, op |-> f.op, interval |-> f.interval,
                     result |-> "ok"]]
            /\ keep_alive' = [keep_alive EXCEPT ![s] =
                    [set |-> TRUE, interval |-> f.interval, started |-> TRUE,
                     ended |-> FALSE, sock |-> ws[s]]]
    /\ UNCHANGED <<ws, open, closedWith, sequence, session_id, resuming, wire,
                   task, taskVars, limiterVars, handlerVars, extraVars>>

\* receive_hello before connect: self.ws is None
ReceiveHelloNoSocket(s) ==
    /\ ws[s] = None
    /\ helloRes' = [helloRes EXCEPT ![s] = [NoHello EXCEPT !.result = "AttributeError"]]
    /\ UNCHANGED <<ws, open, closedWith, sequence, session_id, resuming, wire,
                   keep_alive, task, taskVars, limiterVars, handlerVars, extraVars>>

(***************************************************************************)
(* Shard.listen and the life of the listen task                            *)
(***************************************************************************)
Listen(s) ==
    /\ task[s].state # "running"
    /\ task' = [task EXCEPT ![s] = [state |-> "running", sock |-> ws[s], exc |-> "none"]]
    /\ UNCHANGED <<ws, open, closedWith, sequence, session_id, resuming, wire,
                   keep_alive, helloRes, taskVars, limiterVars, handlerVars, extraVars>>

\* "async for message in ws" ends when its socket is closed; over None it
\* raises TypeError
TaskEnds(s) ==
    /\ task[s].state = "running"
    /\ task[s].sock \notin open[s]
    /\ task' = [task EXCEPT ![s] =
                    IF task[s].sock = None
                    THEN [@ EXCEPT !.state = "raised", !.exc = "TypeError"]
                    ELSE [@ EXCEPT !.state = "finished"]]
    /\ UNCHANGED <<ws, open, closedWith, sequence, session_id, resuming, wire,
                   keep_alive, helloRes, taskVars, limiterVars, handlerVars, extraVars>>

(***************************************************************************)
(* Shard.session_id, Shard.sequence: public attributes their owner assigns *)
(***************************************************************************)
Busy(s) == \E t \in Tasks : ShardOf(t) = s /\ pc[t] # "idle"

SetSession(s, sid, q) ==
    /\ ws[s] # None
    /\ ~Busy(s)
    /\ <<session_id[s], sequence[s]>> # <<sid, q>>
    /\ session_id' = [session_id EXCEPT ![s] = sid]
    /\ sequence' = [sequence EXCEPT ![s] = q]
    /\ UNCHANGED <<ws, open, closedWith, resuming, wire, keep_alive, task,
                   helloRes, taskVars, limiterVars, handlerVars, extraVars>>

(***************************************************************************)
(* Shard.disconnect                                                        *)
(***************************************************************************)
\* self._keep_alive._ended = True, then await self.ws.close(code=4000)
DisconnectCall(t) ==
    LET s == ShardOf(t) IN
    /\ pc[t] = "idle"
    /\ op' = [op EXCEPT ![t] = None]
    /\ prev' = [prev EXCEPT ![t] = None]
    /\ IF ~keep_alive[s].set
       THEN /\ outcome' = [outcome EXCEPT ![t] =
                                [call |-> "disconnect", result |-> "AttributeError"]]
            /\ UNCHANGED <<pc, keep_alive, open, closedWith>>
       ELSE /\ keep_alive' = [keep_alive EXCEPT ![s].ended = TRUE]
            /\ IF ws[s] = None
               THEN /\ outcome' = [outcome EXCEPT ![t] =
                                        [call |-> "disconnect", result |-> "AttributeError"]]
                    /\ UNCHANGED <<pc, open, closedWith>>
               ELSE /\ outcome' = [outcome EXCEPT ![t] =
                                        [call |-> "disconnect", result |-> "none"]]
                    /\ pc' = [pc EXCEPT ![t] = "d_cancel"]
                    /\ open' = [open EXCEPT ![s] = @ \ {ws[s]}]
                    /\ closedWith' = [closedWith EXCEPT ![s] =
                                        @ \cup {<<ws[s], CloseCode>>}]
    /\ UNCHANGED <<ws, sequence, session_id, resuming, wire, task, helloRes,
                   fresh, limiterVars, handlerVars, extraVars>>

\* if getattr(self, "task", None): self.task.cancel(msg="Disconnect called")
DisconnectCancel(t) ==
    LET s == ShardOf(t) IN
    /\ pc[t] = "d_cancel"
    /\ pc' = [pc EXCEPT ![t] = "idle"]
    /\ outcome' = [outcome EXCEPT ![t].result = "ok"]
    /\ task' = [task EXCEPT ![s] =
                    IF @.state = "running" THEN [@ EXCEPT !.state = "cancelled"] ELSE @]
    /\ UNCHANGED <<ws, open, closedWith, sequence, session_id, resuming, wire,
                   keep_alive, helloRes, op, fresh, prev, limiterVars, handlerVars, extraVars>>

(***************************************************************************)
(* Shard.resume(restart=True): the part before the rate-limited send       *)
(***************************************************************************)
\* await self.ws.close(code=4000)
ResumeRestartCall(t) ==
    LET s == ShardOf(t) IN
    /\ pc[t] = "idle"
    /\ ws[s] < MaxConn
    /\ IF ws[s] = None
       THEN /\ outcome' = [outcome EXCEPT ![t] =
                                [call |-> "resume", result |-> "AttributeError"]]
            /\ UNCHANGED <<pc, op, prev, open, closedWith>>
       ELSE /\ outcome' = [outcome EXCEPT ![t] = [call |-> "resume", result |-> "none"]]
            /\ pc' = [pc EXCEPT ![t] = "r_connect"]
            /\ op' = [op EXCEPT ![t] = RESUME]
            /\ prev' = [prev EXCEPT ![t] = ws[s]]
            /\ open' = [open EXCEPT ![s] = @ \ {ws[s]}]
            /\ closedWith' = [closedWith EXCEPT ![s] = @ \cup {<<ws[s], CloseCode>>}]
    /\ UNCHANGED <<ws, sequence, session_id, resuming, wire, keep_alive, task,
                   helloRes, fresh, limiterVars, handlerVars, extraVars>>

\* a reconnect that starts the session over
ResumeReconnectFresh(t) ==
    LET s == ShardOf(t) IN
    /\ pc[t] = "r_connect"
    /\ ws[s] < MaxConn
    /\ ws' = [ws EXCEPT ![s] = @ + 1]
    /\ open' = [open EXCEPT ![s] = @ \cup {ws'[s]}]
    /\ session_id' = [session_id EXCEPT ![s] = NoSession]
    /\ sequence' = [sequence EXCEPT ![s] = None]
    /\ IF ~keep_alive[s].set
       THEN /\ outcome' = [outcome EXCEPT ![t].result = "AttributeError"]
            /\ pc' = [pc EXCEPT ![t] = "idle"]
            /\ op' = [op EXCEPT ![t] = None]
            /\ UNCHANGED keep_alive
       ELSE /\ keep_alive' = [keep_alive EXCEPT ![s].sock = ws'[s]]
            /\ pc' = [pc EXCEPT ![t] = "acquire"]
            /\ UNCHANGED <<op, outcome>>
    /\ UNCHANGED <<closedWith, resuming, wire, task, helloRes,
                   fresh, prev, limiterVars, handlerVars, extraVars>>

\* await self.connect(**self._snd_kwds), then self._keep_alive._ws = self.ws
ResumeReconnect(t) ==
    LET s == ShardOf(t) IN
    /\ pc[t] = "r_connect"
    /\ ws[s] < MaxConn
    /\ ws' = [ws EXCEPT ![s] = @ + 1]
    /\ open' = [open EXCEPT ![s] = @ \cup {ws'[s]}]
    /\ IF ~keep_alive[s].set
       THEN /\ outcome' = [outcome EXCEPT ![t].result = "AttributeError"]
            /\ pc' = [pc EXCEPT ![t] = "idle"]
            /\ op' = [op EXCEPT ![t] = None]
            /\ UNCHANGED keep_alive
       ELSE /\ keep_alive' = [keep_alive EXCEPT ![s].sock = ws'[s]]
            /\ pc' = [pc EXCEPT ![t] = "acquire"]
            /\ UNCHANGED <<op, outcome>>
    /\ UNCHANGED <<closedWith, sequence, session_id, resuming, wire, task, helloRes,
                   fresh, prev, limiterVars, handlerVars, extraVars>>

(***************************************************************************)
(* acord/errors.py                                                         *)
(***************************************************************************)
\* the base class of each exception class ("" above Exception)
BaseOf(c) ==
    CASE c \in {"GatewayConnectionRefused", "GatewayConnectionClosed"} -> "GatewayError"
      [] c = "GatewayError" -> "BaseExc"
      [] c \in {"BaseExc", "KeyError", "ValueError", "TypeError", "AttributeError"}
            -> "Exception"
      [] OTHER -> ""

\* isinstance(an exception of class c, d)
IsInstance(c, d) ==
    \/ c = d
    \/ BaseOf(c) = d
    \/ BaseOf(BaseOf(c)) = d
    \/ BaseOf(BaseOf(BaseOf(c))) = d

(***************************************************************************)
(* handle_websocket: the body of "async for message in ws", one frame      *)
(***************************************************************************)
Ev(name, e) == [name |-> name, arg |-> e]

\* dict.update({k: v}) and dict.pop(k) on a cache
Upsert(c, k, v) == [x \in (DOMAIN c) \cup {k} |-> IF x = k THEN v ELSE c[x]]
Without(c, k) == [x \in (DOMAIN c) \ {k} |-> c[x]]

\* Guild(conn=self.http, **DATA), _d_to_channel(DATA, self.http), ...
hydrate(kind, f) == Entity(kind, f.id.v, f.ver)

\* UNAVAILABLE = list(), at every frame
FrameUnavailable == {}

\* a handler that lets an invalid session pass
RefusesSessionNever(o) == FALSE

\* if OPERATION == gateway.INVALIDSESSION
RefusesSession(o) == o = INVALIDSESSION

\* if EVENT == "READY": ...; continue
OnReady(f, st) ==
    LET user == Entity("User", f.id.v, f.ver) IN
    [st EXCEPT !.events = Append(@, Ev("ready", NoEntity)),
               !.seen = View(st.client, st.storage),     \* self.dispatch("ready")
               !.client = [session_id |-> f.session_id, gateway_version |-> f.ver,
                           user |-> user],
               !.storage.users = Upsert(@, Num(user.id), user)]

\* if EVENT == "MESSAGE_CREATE"
OnMessageCreate(f, st) ==
    LET message == Entity("Message", f.id.v, f.ver)
        ch == ToInt(f.channel_id)
        marked == IF ch \in DOMAIN st.storage.channels
                  THEN [st.storage.channels EXCEPT ![ch].last = message.id]
                  ELSE st.storage.channels
    IN
    [st EXCEPT !.storage.channels = marked,
               !.storage.messages = Upsert(@, <<f.channel_id.v, message.id>>, message),
               !.events = Append(@, Ev("message", message))]

\* if EVENT == "GUILD_CREATE"
OnGuildCreate(f, st) ==
    LET guild == hydrate("Guild", f) IN
    [st EXCEPT !.events = Append(@, Ev(IF f.id \in FrameUnavailable
                                       THEN "guild_recv" ELSE "guild_create", guild)),
               !.storage.guilds = Upsert(@, ToInt(f.id), guild)]

\* if EVENT == "GUILD_DELETE"
OnGuildDelete(f, st) ==
    IF f.unavailable
    THEN LET guild == hydrate("Guild", f) IN
         IF f.id \notin FrameUnavailable
         THEN [st EXCEPT !.exc = "ValueError"]       \* UNAVAILABLE.remove(DATA["id"])
         ELSE [st EXCEPT !.events = Append(@, Ev("guild_outage", guild)),
                         !.storage.guilds = Upsert(@, ToInt(f.id), guild)]
    ELSE IF f.id \notin DOMAIN st.storage.guilds
         THEN [st EXCEPT !.exc = "KeyError"]         \* guilds.pop(DATA["id"])
         ELSE [st EXCEPT !.storage.guilds = Without(@, f.id),
                         !.events = Append(@, Ev("guild_remove", st.storage.guilds[f.id]))]

\* channel.id: the snowflake of the channel entity, an integer
ChannelKey(channel) == Num(channel.id)

\* if EVENT == "CHANNEL_CREATE" / "CHANNEL_UPDATE"
OnChannelUpsert(f, st, name) ==
    LET channel == hydrate("Channel", f) IN
    [st EXCEPT !.storage.channels = Upsert(@, ChannelKey(channel), channel),
               !.events = Append(@, Ev(name, channel))]

\* a CHANNEL_DELETE branch that reads the channel and leaves it cached
OnChannelDeleteKeeps(f, st) ==
    IF ToInt(f.id) \notin DOMAIN st.storage.channels
    THEN [st EXCEPT !.exc = "KeyError"]
    ELSE [st EXCEPT !.events = Append(@, Ev("channel_delete",
                                             st.storage.channels[ToInt(f.id)]))]

\* if EVENT == "CHANNEL_DELETE"
OnChannelDelete(f, st) ==
    IF ToInt(f.id) \notin DOMAIN st.storage.channels
    THEN [st EXCEPT !.exc = "KeyError"]              \* channels.pop(int(DATA['id']))
    ELSE [st EXCEPT !.storage.channels = Without(@, ToInt(f.id)),
                    !.events = Append(@, Ev("channel_delete",
                                             st.storage.channels[ToInt(f.id)]))]

\* one pass of the loop body over frame f: the sequence, the receiver's
\* attributes and caches, the events dispatched and the exception raised
Handled(f) ==
    LET st0 == [seq |-> gwSequence, client |-> client, storage |-> storage,
                events |-> <<Ev("socket_recieve", NoEntity)>>, exc |-> "none",
                seen |-> atReady]
    IN
    IF f.kind = "empty" THEN st0                     \* if not data: continue
    ELSE IF f.kind = "bare" THEN [st0 EXCEPT !.exc = "KeyError"]     \* data["t"]
    ELSE
    LET st1 == [st0 EXCEPT !.seq = f.s] IN           \* gateway.SEQUENCE = SEQUENCE
    IF RefusesSession(f.op) THEN [st1 EXCEPT !.exc = "GatewayConnectionRefused"]
    ELSE
    LET st2 == IF f.op = HEARTBEATACK
               THEN [st1 EXCEPT !.events = Append(@, Ev("heartbeat", NoEntity))]
               ELSE st1
    IN
    CASE f.t = "READY" -> OnReady(f, st2)
      [] f.t = "MESSAGE_CREATE" -> OnMessageCreate(f, st2)
      [] f.t = "GUILD_CREATE" -> OnGuildCreate(f, st2)
      [] f.t = "GUILD_DELETE" -> OnGuildDelete(f, st2)
      [] f.t = "CHANNEL_CREATE" -> OnChannelUpsert(f, st2, "channel_create")
      [] f.t = "CHANNEL_UPDATE" -> OnChannelUpsert(f, st2, "channel_update")
      [] f.t = "CHANNEL_DELETE" -> OnChannelDelete(f, st2)
      [] OTHER -> st2

\* the frames the gateway sends, before their sequence number
Bodies ==
    {Body("json", HEARTBEATACK, "null", NoId, None, FALSE, NoSession, {}, NoId),
     Body("json", INVALIDSESSION, "null", NoId, None, FALSE, NoSession, {}, NoId),
     Body("empty", None, "null", NoId, None, FALSE, NoSession, {}, NoId),
     Body("bare", DISPATCH, "none", NoId, None, FALSE, NoSession, {}, NoId),
     Event("TYPING_START", NoId, None, FALSE)}
    \cup {Body("json", DISPATCH, "READY", Str(1), 1, FALSE, sid, {Str(1)}, NoId) :
                sid \in SessionIds}
    \cup {Body("json", DISPATCH, "MESSAGE_CREATE", Str(1), 1, FALSE, NoSession, {},
                Str(1))}
    \cup {Event("GUILD_CREATE", Str(n), v, FALSE) : n \in Ids, v \in Vers}
    \cup {Event("GUILD_DELETE", Str(n), NumVers, TRUE) : n \in Ids}
    \cup {Event("GUILD_DELETE", r, NumVers, FALSE) : r \in RawIds}
    \cup {Event("CHANNEL_CREATE", Str(n), 1, FALSE) : n \in Ids}
    \cup {Event("CHANNEL_UPDATE", Str(n), NumVers, FALSE) : n \in Ids}
    \cup {Event("CHANNEL_DELETE", Str(n), None, FALSE) : n \in Ids}

\* the guild ids a session's READY listed and no GUILD_CREATE has brought yet
ListedAfter(s, f) ==
    CASE f.kind = "json" /\ f.t = "READY" -> f.guilds
      [] f.kind = "json" /\ f.t = "GUILD_CREATE" -> listed[s] \ {f.id}
      [] OTHER -> listed[s]

\* the loop body over frame f, in the task of shard s: it has no await, so
\* it runs from its first statement to its last as one step
Process(s, f) ==
    LET r == Handled(f) IN
    /\ gwSequence' = r.seq
    /\ client' = r.client
    /\ storage' = r.storage
    /\ last' = [shard |-> s, events |-> r.events]
    \* the subscriber of "ready" runs inside the dispatch call, or as a task
    \* of its own once the loop body has come to its end
    /\ \E deferred \in (IF f.kind = "json" /\ f.t = "READY" /\ r.exc = "none"
                         THEN BOOLEAN ELSE {FALSE}) :
            atReady' = IF deferred THEN View(r.client, r.storage) ELSE r.seen
    /\ listed' = [listed EXCEPT ![s] = ListedAfter(s, f)]
    /\ task' = [task EXCEPT ![s] =
                    IF r.exc = "none" THEN @
                    ELSE [@ EXCEPT !.state = "raised", !.exc = r.exc]]

\* the listen task of shard s takes the next frame from its socket
HandleFrame(s, b) ==
    LET numbered == b.kind = "json" /\ b.op = DISPATCH
        f == [b EXCEPT !.s = IF numbered THEN srvSeq[s] + 1 ELSE None]
    IN
    /\ task[s].state = "running"
    /\ task[s].sock \in open[s]
    /\ numbered => srvSeq[s] < MaxSeq
    /\ srvSeq' = [srvSeq EXCEPT ![s] = IF numbered THEN @ + 1 ELSE @]
    /\ Process(s, f)
    /\ UNCHANGED <<ws, open, closedWith, sequence, session_id, resuming, wire,
                   keep_alive, helloRes, taskVars, limiterVars, extraVars>>

(***************************************************************************)
(* Frames that wait in the socket                                          *)
(***************************************************************************)
\* a frame arrives at the socket shard s holds while the loop is busy or idle
Arrive(s, b) ==
    LET numbered == b.kind = "json" /\ b.op = DISPATCH
        f == [b EXCEPT !.s = IF numbered THEN srvSeq[s] + 1 ELSE None]
        n == Len(done[s]) + Len(inbox[s]) + 1
    IN
    /\ IsOpen(s)
    /\ n <= MaxArrive
    /\ numbered => srvSeq[s] < MaxSeq
    /\ srvSeq' = [srvSeq EXCEPT ![s] = IF numbered THEN @ + 1 ELSE @]
    /\ inbox' = [inbox EXCEPT ![s] = Append(@, [n |-> n, f |-> f])]
    /\ UNCHANGED <<shardVars, taskVars, limiterVars, gwSequence, client, storage,
                   last, atReady, listed, own, hb, readyVars, done>>

\* a loop that takes the frame that arrived last
NextMessageNewest(q) == q[Len(q)]

\* async for message in ws: the message that has waited longest
NextMessage(q) == Head(q)

\* the listen task of shard s takes a waiting frame and runs the loop body
TakeNext(s) ==
    /\ task[s].state = "running"
    /\ task[s].sock \in open[s]
    /\ task[s].sock = ws[s]
    /\ inbox[s] # <<>>
    /\ LET m == NextMessage(inbox[s]) IN
        /\ Process(s, m.f)
        /\ inbox' = [inbox EXCEPT ![s] = SelectSeq(@, LAMBDA x : x # m)]
        /\ done' = [done EXCEPT ![s] =
                        Append(@, [n |-> m.n, seq |-> m.f.s,
                                   events |-> Handled(m.f).events])]
    /\ UNCHANGED <<ws, open, closedWith, sequence, session_id, resuming, wire,
                   keep_alive, helloRes, taskVars, limiterVars, srvSeq,
                   own, hb, readyVars>>

\* the frames that arrive while others wait
OrderBodies ==
    {b \in Bodies : \/ b.op = HEARTBEATACK
                    \/ b.t \in {"TYPING_START", "GUILD_CREATE", "CHANNEL_DELETE"}}

\* the shards the caller tasks work on
CalledShards == {ShardOf(t) : t \in Tasks}

\* The life of a session: the handshake, listen, disconnect and resume of
\* the shards the tasks call, within one window of the limiter.
SessionNext ==
    \/ \E s \in CalledShards : Connect(s)
    \/ \E s \in CalledShards, f \in HelloFrames : ReceiveHello(s, f)
    \/ \E s \in CalledShards : ReceiveHelloNoSocket(s)
    \/ \E s \in CalledShards : Listen(s)
    \/ \E s \in CalledShards : TaskEnds(s)
    \/ \E s \in CalledShards, sid \in SessionIds, q \in Sequences : SetSession(s, sid, q)
    \/ \E t \in Tasks : DisconnectCall(t)
    \/ \E t \in Tasks : DisconnectCancel(t)
    \/ \E t \in Tasks : ResumeRestartCall(t)
    \/ \E t \in Tasks : ResumeReconnect(t)
    \/ \E t \in Tasks : Acquire(t)
    \/ \E t \in Tasks : Release(t)
    \/ \E t \in Tasks : Send(t)

SessionSpec == Init /\ [][SessionNext]_vars

FirstShard == CHOOSE s \in Shards : \A r \in Shards : s <= r

\* The receive loop of one session, over every kind of frame.
HandlerNext ==
    \/ \E s \in {FirstShard} : Connect(s)
    \/ \E s \in {FirstShard} : Listen(s)
    \/ \E s \in {FirstShard} : TaskEnds(s)
    \/ \E s \in {FirstShard}, b \in Bodies : HandleFrame(s, b)

HandlerSpec == Init /\ [][HandlerNext]_vars

(***************************************************************************)
(* Shard.wait_until_ready                                                  *)
(***************************************************************************)
\* the attributes Shard.__init__ and Shard.connect assign
ShardAttributes ==
    {"url", "shard_id", "num_shards", "client", "session", "handler", "ws",
     "ready_event", "loop", "ratelimiter", "sequence", "session_id",
     "gateway_version", "resuming", "_snd_kwds"}

\* await self._ready_event.wait()
WaitUntilReady(s) ==
    /\ waiter[s] = "none"
    /\ waiter' = [waiter EXCEPT ![s] =
                    IF "_ready_event" \notin ShardAttributes THEN "AttributeError"
                    ELSE IF ready_event[s] THEN "released" ELSE "waiting"]
    /\ UNCHANGED <<shardVars, taskVars, limiterVars, handlerVars, own, hb, ready_event, queueVars>>

\* The receive loop of one session, and a task that waits for it to be ready.
ReadyNext ==
    \/ \E s \in {FirstShard} : Connect(s)
    \/ \E s \in {FirstShard} : Listen(s)
    \/ \E s \in {FirstShard} : TaskEnds(s)
    \/ \E s \in {FirstShard}, b \in Bodies : HandleFrame(s, b)
    \/ \E s \in {FirstShard} : WaitUntilReady(s)

ReadySpec == Init /\ [][ReadyNext]_vars

(***************************************************************************)
(* A socket that the gateway closes                                        *)
(***************************************************************************)
\* the gateway, or the network, closes the socket the shard holds
ServerClose(s) ==
    /\ ws[s] \in open[s]
    /\ open' = [open EXCEPT ![s] = @ \ {ws[s]}]
    /\ UNCHANGED <<ws, closedWith, sequence, session_id, resuming, wire,
                   keep_alive, task, helloRes, taskVars, limiterVars,
                   handlerVars, extraVars>>

\* the socket the shard holds is closed, and not by the client
Dropped(s) ==
    /\ ws[s] # None
    /\ ws[s] \notin open[s]
    /\ <<ws[s], CloseCode>> \notin closedWith[s]

\* A session whose socket may drop: the handshake, listen and resume of the
\* shards the tasks call.
ReconnectNext ==
    \/ \E s \in CalledShards : Connect(s)
    \/ \E s \in CalledShards, f \in HelloFrames : ReceiveHello(s, f)
    \/ \E s \in CalledShards : Listen(s)
    \/ \E s \in CalledShards : TaskEnds(s)
    \/ \E s \in CalledShards : ServerClose(s)
    \/ \E s \in CalledShards, sid \in SessionIds, q \in Sequences : SetSession(s, sid, q)
    \/ \E t \in Tasks : ResumeRestartCall(t)
    \/ \E t \in Tasks : ResumeReconnect(t)
    \/ \E t \in Tasks : Acquire(t)
    \/ \E t \in Tasks : Release(t)
    \/ \E t \in Tasks : Send(t)

\* The event loop runs the listen task and every coroutine that was called
\* to its end; nothing obliges a caller to call.
ReconnectSpec ==
    /\ Init /\ [][ReconnectNext]_vars
    /\ \A s \in CalledShards : WF_vars(TaskEnds(s))
    /\ \A t \in Tasks :
            WF_vars(ResumeReconnect(t) \/ Acquire(t) \/ Release(t) \/ Send(t))

(***************************************************************************)
(* GatewayKeepAlive: the heartbeat monitor of a session                    *)
(***************************************************************************)
\* self._keep_alive.start(): the monitor begins to run
MonitorStart(s) ==
    /\ keep_alive[s].started
    /\ hb[s] = "Idle"
    /\ hb' = [hb EXCEPT ![s] = "Running"]
    /\ UNCHANGED <<shardVars, taskVars, limiterVars, handlerVars, own, readyVars, queueVars>>

\* the frame a heartbeat puts on the wire
HeartbeatFrame(s) ==
    [op |-> HEARTBEAT, a |-> NoSession, b |-> sequence[s], shard |-> s,
     sock |-> keep_alive[s].sock]

\* the scheduled heartbeat fires: it is sent, unless the one before it is
\* still without acknowledgement, which makes the monitor Zombie
Beat(s) ==
    /\ hb[s] \in {"Running", "AwaitingAck"}
    /\ ~keep_alive[s].ended
    /\ IF hb[s] = "Running"
       THEN /\ hb' = [hb EXCEPT ![s] = "AwaitingAck"]
            /\ wire' = IF keep_alive[s].sock \in open[s] THEN HeartbeatFrame(s)
                       ELSE wire
       ELSE /\ hb' = [hb EXCEPT ![s] = "Zombie"]
            /\ UNCHANGED wire
    /\ UNCHANGED <<ws, open, closedWith, sequence, session_id, resuming,
                   keep_alive, task, helloRes, taskVars, limiterVars,
                   handlerVars, own, readyVars, queueVars>>

\* the frames a session receives between its heartbeats
HeartbeatBodies ==
    {b \in Bodies : b.op = HEARTBEATACK \/ b.t \in {"READY", "TYPING_START"}}

\* One session with its heartbeat monitor and its receive loop.
HeartbeatNext ==
    \/ \E s \in {FirstShard} : Connect(s)
    \/ \E s \in {FirstShard}, f \in HelloFrames : ReceiveHello(s, f)
    \/ \E s \in {FirstShard} : Listen(s)
    \/ \E s \in {FirstShard} : MonitorStart(s)
    \/ \E s \in {FirstShard} : Beat(s)
    \/ \E s \in {FirstShard}, b \in HeartbeatBodies : HandleFrame(s, b)

HeartbeatSpec == Init /\ [][HeartbeatNext]_vars

\* One session whose frames arrive faster than its loop takes them.
OrderNext ==
    \/ \E s \in {FirstShard} : Connect(s)
    \/ \E s \in {FirstShard} : Listen(s)
    \/ \E s \in {FirstShard}, b \in OrderBodies : Arrive(s, b)
    \/ \E s \in {FirstShard} : TakeNext(s)

OrderSpec == Init /\ [][OrderNext]_vars

\* the frames with which the gateway answers a resume
ResumeAnswers ==
    {b \in Bodies : b.op = INVALIDSESSION \/ b.t \in {"READY", "TYPING_START"}}

\* One session whose callers call resume() while it listens.
ResumingNext ==
    \/ \E s \in {FirstShard} : Connect(s)
    \/ \E s \in {FirstShard} : Listen(s)
    \/ \E t \in Tasks, o \in {RESUME} : StartControl(t, o)
    \/ \E t \in Tasks : Acquire(t)
    \/ \E t \in Tasks : Release(t)
    \/ \E t \in Tasks : Send(t)
    \/ \E s \in {FirstShard}, b \in ResumeAnswers : HandleFrame(s, b)

ResumingSpec == Init /\ [][ResumingNext]_vars

\* The receive loops of all the sessions of one client, run side by side.
SessionsNext ==
    \/ \E s \in Shards : Connect(s)
    \/ \E s \in Shards : Listen(s)
    \/ \E s \in Shards, b \in HeartbeatBodies : HandleFrame(s, b)

SessionsSpec == Init /\ [][SessionsNext]_vars

(***************************************************************************)
(* Shard.contains_guild                                                    *)
(***************************************************************************)
\* guild_id >> 22
ShiftBits == 22
ShiftRight(n, bits) == n \div (2 ^ bits)

\* an ownership test that leaves the shift out
contains_guild_unshifted(shard_id, num_shards, guild_id) ==
    (guild_id % num_shards) = shard_id

\* ((guild_id >> 22) % self.num_shards) == self.shard_id
contains_guild(shard_id, num_shards, guild_id) ==
    (ShiftRight(guild_id, ShiftBits) % num_shards) = shard_id

\* guild ids: every high part up to MaxHigh, with low bits all 0, 1, all 1
GuildIds == {h * (2 ^ ShiftBits) + l : h \in 0 .. MaxHigh,
                                       l \in {0, 1, (2 ^ ShiftBits) - 1}}
ShardCounts == 1 .. MaxNumShards

\* shards 0 .. n-1 are constructed with num_shards = n, to be asked about g
NewQuery(g, n) ==
    /\ own' = [guild_id |-> g, num_shards |-> n, answers |-> [i \in 0 .. n - 1 |-> {}]]
    /\ UNCHANGED <<shardVars, taskVars, limiterVars, handlerVars, hb, readyVars, queueVars>>

\* shard.contains_guild(guild_id) is called on the shard with shard_id i
ContainsGuild(i) ==
    /\ own.guild_id # None
    /\ i \in DOMAIN own.answers
    /\ own' = [own EXCEPT !.answers[i] =
                    @ \cup {contains_guild(i, own.num_shards, own.guild_id)}]
    /\ UNCHANGED <<shardVars, taskVars, limiterVars, handlerVars, hb, readyVars, queueVars>>

OwnershipNext ==
    \/ \E g \in GuildIds, n \in ShardCounts : NewQuery(g, n)
    \/ \E i \in 0 .. MaxNumShards - 1 : ContainsGuild(i)

OwnershipSpec == Init /\ [][OwnershipNext]_vars

\* The control frames of the tasks, over any number of windows.
LimiterNext ==
    \/ \E s \in CalledShards : Connect(s)
    \/ \E t \in Tasks, o \in ControlOps : StartControl(t, o)
    \/ \E t \in Tasks : Acquire(t)
    \/ \E t \in Tasks : HoldReturn(t)
    \/ \E t \in Tasks : Release(t)
    \/ \E t \in Tasks : Send(t)
    \/ \E k \in Keys : WindowElapse(k)

LimiterSpec == Init /\ [][LimiterNext]_vars

\* The control frames of the tasks, with every send as a call and a return.
WriteNext ==
    \/ \E s \in CalledShards : Connect(s)
    \/ \E t \in Tasks, o \in ControlOps : StartControl(t, o)
    \/ \E t \in Tasks : Acquire(t)
    \/ \E t \in Tasks : HoldReturn(t)
    \/ \E t \in Tasks : Release(t)
    \/ \E t \in Tasks : SendBegin(t)
    \/ \E t \in Tasks : SendEnd(t)
    \/ \E k \in Keys : WindowElapse(k)

WriteSpec == Init /\ [][WriteNext]_vars

\* The event loop runs every task that can go on, and time passes.
LimiterFairSpec ==
    /\ LimiterSpec
    /\ \A k \in Keys : WF_vars(WindowElapse(k))
    /\ \A t \in Tasks : WF_vars(HoldReturn(t) \/ Release(t) \/ Send(t))

(***************************************************************************)
(* Rate limiting of control frames                                         *)
(***************************************************************************)
KeyOf(t) == ratelimit_key(ShardOf(t))

\* the tasks whose frame was admitted in the current window of k and is not
\* written yet
PendingFresh(k) ==
    {t \in Tasks : KeyOf(t) = k /\ pc[t] \in {"release", "send"} /\ fresh[t]}

\* C1, as claimed: in every window of every bucket, the control frames written
\* by the sessions sharing the key never exceed the bucket's limit.
C1_SentPerWindowWithinLimit ==
    \A k \in Keys : sentNow[k] <= Limit

\* C1, amended: in every window of every bucket the increments granted never
\* exceed the limit, and the frames written in a window that were admitted
\* in it, with those admitted and still to be written, never exceed the
\* increments granted.
C1_AdmittedPerWindowWithinLimit ==
    \A k \in Keys :
        /\ count[k] <= Limit
        /\ sentFresh[k] + Cardinality(PendingFresh(k)) <= count[k]

\* a full bucket whose admitted frames are all written, and a caller held by it
C1_Witness ==
    \E t \in Tasks :
        /\ pc[t] = "hold"
        /\ count[KeyOf(t)] = Limit
        /\ sentFresh[KeyOf(t)] = Limit

\* C2: a caller that finds the bucket full is held; it leaves the hold only
\* once the window has elapsed and the counter is 0, its own increment then
\* succeeds, and on an open socket its frame is eventually written.
C2_HeldUntilResetThenSent ==
    /\ [][\A t \in Tasks :
            /\ (pc[t] = "acquire" /\ pc'[t] # "acquire" /\ count[KeyOf(t)] = Limit)
                    => (pc'[t] = "hold" /\ count' = count)
            /\ (pc[t] = "hold" /\ pc'[t] # "hold")
                    => (count[KeyOf(t)] = 0 /\ count'[KeyOf(t)] = 1
                        /\ pc'[t] = "release")]_vars
    /\ \A t \in Tasks :
            (pc[t] = "hold" /\ IsOpen(ShardOf(t))) ~> (outcome[t].result = "sent")

\* a caller held by a full bucket, on an open socket
C2_Witness ==
    \E t \in Tasks :
        /\ pc[t] = "hold"
        /\ IsOpen(ShardOf(t))
        /\ count[KeyOf(t)] = Limit

(***************************************************************************)
(* Resume, hello and disconnect                                            *)
(***************************************************************************)
SessionKept(s) ==
    session_id'[s] = session_id[s] /\ sequence'[s] = sequence[s]

\* C4: a new Shard holds no session id and no sequence; connect() and the
\* reconnect of resume(restart=True) leave both as they are, and so does every
\* step of a running call; resume(restart=True) closes the socket with code
\* 4000, opens another one, and the resume payload it writes goes on the
\* socket the shard then holds and carries the shard's session id and sequence.
C4_ResumeRestartKeepsSession ==
    /\ \A s \in Shards : session_id[s] = NoSession /\ sequence[s] = None
    /\ [][/\ \A s \in Shards : (ws'[s] # ws[s] \/ Busy(s)) => SessionKept(s)
          /\ \A t \in Tasks :
                LET s == ShardOf(t) IN
                /\ (pc[t] = "idle" /\ pc'[t] = "r_connect")
                        => /\ prev'[t] = ws[s]
                           /\ ws[s] \notin open'[s]
                           /\ <<ws[s], CloseCode>> \in closedWith'[s]
                /\ (pc[t] = "r_connect" /\ pc'[t] # "r_connect")
                        => /\ ws'[s] # prev[t]
                           /\ ws'[s] \in open'[s]
                /\ (pc[t] = "send" /\ prev[t] # None /\ outcome'[t].result = "sent")
                        => /\ ws[s] # prev[t]
                           /\ wire' = [op |-> RESUME, a |-> session_id[s],
                                       b |-> sequence[s], shard |-> s,
                                       sock |-> ws[s]]
                           /\ SessionKept(s)]_vars

\* a resume(restart=True) of a session holding "abc" and 42 has closed socket
\* 1 and written its payload on socket 2
C4_Witness ==
    \E t \in Tasks :
        /\ prev[t] = 1
        /\ outcome[t] = [call |-> "resume", result |-> "sent"]
        /\ session_id[ShardOf(t)] = "abc"
        /\ sequence[ShardOf(t)] = 42
        /\ wire = [op |-> RESUME, a |-> "abc", b |-> 42, shard |-> ShardOf(t),
                   sock |-> 2]
        /\ <<1, CloseCode>> \in closedWith[ShardOf(t)]

\* C6: a receive_hello on a socket reads one frame; if the frame's op is not
\* Hello the call fails with GatewayError and the keep-alive is left as it
\* was; if it is Hello the keep-alive is created, started, and holds the
\* frame's heartbeat_interval; nothing else sets the keep-alive's interval.
C6_HelloStartsKeepAlive ==
    [][\A s \in Shards :
        /\ (helloRes'[s] # helloRes[s] /\ helloRes'[s].result # "AttributeError")
                => /\ helloRes'[s].read = 1
                   /\ IF helloRes'[s].op = HELLO
                      THEN /\ helloRes'[s].result = "ok"
                           /\ keep_alive'[s].set /\ keep_alive'[s].started
                           /\ ~keep_alive'[s].ended
                           /\ keep_alive'[s].interval = helloRes'[s].interval
                      ELSE /\ helloRes'[s].result = "GatewayError"
                           /\ keep_alive'[s] = keep_alive[s]
        /\ (keep_alive'[s].set # keep_alive[s].set
                \/ keep_alive'[s].interval # keep_alive[s].interval)
                => /\ helloRes'[s].op = HELLO /\ helloRes'[s].result = "ok"
                   /\ keep_alive'[s].interval = helloRes'[s].interval]_vars

\* a Hello with heartbeat_interval 41250 has started the keep-alive, and a
\* later frame that is no Hello has left it alone
C6_Witness ==
    \E s \in Shards :
        /\ helloRes[s].result = "GatewayError"
        /\ helloRes[s].op = HEARTBEATACK
        /\ keep_alive[s].started
        /\ keep_alive[s].interval = 41250

\* C7: disconnect() never fails, whatever the state of the session it is
\* called in, and once it has returned the keep-alive is ended.
C7_DisconnectNeverFails ==
    \A t \in Tasks :
        outcome[t].call = "disconnect"
            => /\ outcome[t].result \in {"none", "ok"}
               /\ outcome[t].result = "ok" => keep_alive[ShardOf(t)].ended

(***************************************************************************)
(* The receive loop                                                        *)
(***************************************************************************)
Received == Ev("socket_recieve", NoEntity)
Times(events, name) == Cardinality({i \in DOMAIN events : events[i].name = name})
InvalidSessionBody ==
    Body("json", INVALIDSESSION, "null", NoId, None, FALSE, NoSession, {}, NoId)
GuildCreateBodies == {b \in Bodies : b.t = "GUILD_CREATE"}
GuildOutageBodies == {b \in Bodies : b.t = "GUILD_DELETE" /\ b.unavailable}
GuildRemoveBodies == {b \in Bodies : b.t = "GUILD_DELETE" /\ ~b.unavailable}

\* C3: the sequence the handler keeps never goes down and, once a number,
\* stays a number, whatever frames arrive (heartbeat acks, whose "s" is null,
\* included); only a connect may make it null again.
C3_SequenceNeverDecreases ==
    [][(gwSequence # None /\ ws' = ws)
            => (gwSequence' # None /\ gwSequence' >= gwSequence)]_vars

\* C5: handling an InvalidSession frame raises GatewayConnectionRefused out of
\* the listen task: the caches and the receiver's attributes are as before, no
\* event but the raw "socket_recieve" is dispatched, no socket is opened and
\* no frame is written; a task that has raised handles no further frame; the
\* exception is a GatewayError, is no GatewayConnectionClosed, and no other
\* frame makes the handler raise a GatewayConnectionRefused.
C5_InvalidSessionIsFatal ==
    [][\A s \in Shards :
        /\ HandleFrame(s, InvalidSessionBody)
                => /\ task'[s].state = "raised"
                   /\ task'[s].exc = "GatewayConnectionRefused"
                   /\ IsInstance(task'[s].exc, "GatewayError")
                   /\ ~IsInstance(task'[s].exc, "GatewayConnectionClosed")
                   /\ storage' = storage /\ client' = client
                   /\ last'.events = <<Received>>
                   /\ ws' = ws /\ open' = open /\ wire' = wire
        /\ task[s].state = "raised" => \A b \in Bodies : ~HandleFrame(s, b)
        /\ (task[s].state = "running" /\ task'[s].state = "raised"
                /\ ~HandleFrame(s, InvalidSessionBody))
                => ~IsInstance(task'[s].exc, "GatewayConnectionRefused")]_vars

\* an InvalidSession has ended a listen task whose client holds a session and
\* a cached guild
C5_Witness ==
    \E s \in Shards :
        /\ task[s].state = "raised"
        /\ task[s].exc = "GatewayConnectionRefused"
        /\ client.session_id # NoSession
        /\ DOMAIN storage.guilds # {}

\* C8: a GUILD_CREATE for a guild id the session's READY listed dispatches
\* "guild_recv" and takes the id off the list, any other GUILD_CREATE
\* dispatches "guild_create", and either way the guild is in the guild cache
\* afterwards.
C8_ListedGuildIsReceived ==
    [][\A s \in Shards, b \in GuildCreateBodies :
        HandleFrame(s, b)
            => /\ last'.events =
                    <<Received, Ev(IF b.id \in listed[s] THEN "guild_recv"
                                   ELSE "guild_create", hydrate("Guild", b))>>
               /\ b.id \notin listed'[s]
               /\ ToInt(b.id) \in DOMAIN storage'.guilds
               /\ storage'.guilds[ToInt(b.id)] = hydrate("Guild", b)]_vars

\* C9: a GUILD_DELETE carrying "unavailable" leaves the guild in the guild
\* cache under its id, dispatches "guild_outage" once, and the listen task
\* goes on, whether or not the id is listed as unavailable.
C9_OutageKeepsGuild ==
    [][\A s \in Shards, b \in GuildOutageBodies :
        HandleFrame(s, b)
            => /\ task'[s].state = "running"
               /\ ToInt(b.id) \in DOMAIN storage'.guilds
               /\ Times(last'.events, "guild_outage") = 1]_vars

\* C10: a GUILD_DELETE without "unavailable", for a guild that a GUILD_CREATE
\* of the same id has cached, takes the guild out of the guild cache and
\* dispatches "guild_remove" once, with the entity that was cached.
C10_RemoveEvictsGuild ==
    [][\A s \in Shards, b \in GuildRemoveBodies :
        (HandleFrame(s, b) /\ ToInt(b.id) \in DOMAIN storage.guilds)
            => /\ ToInt(b.id) \notin DOMAIN storage'.guilds
               /\ last'.events =
                    <<Received, Ev("guild_remove", storage.guilds[ToInt(b.id)])>>]_vars

ChannelDeleteBodies == {b \in Bodies : b.t = "CHANNEL_DELETE"}
BareBodies == {b \in Bodies : b.kind = "bare"}

\* C11: a CHANNEL_DELETE for an id that is in the channel cache takes that id
\* out of the cache, dispatches "channel_delete" once with the value that was
\* cached, leaves every other channel and every other cache as it was, and
\* the listen task goes on.
C11_ChannelDeleteEvicts ==
    [][\A s \in Shards, b \in ChannelDeleteBodies :
        (HandleFrame(s, b) /\ ToInt(b.id) \in DOMAIN storage.channels)
            => /\ storage'.channels = Without(storage.channels, ToInt(b.id))
               /\ ToInt(b.id) \notin DOMAIN storage'.channels
               /\ last'.events =
                    <<Received, Ev("channel_delete", storage.channels[ToInt(b.id)])>>
               /\ storage'.guilds = storage.guilds
               /\ storage'.users = storage.users
               /\ storage'.messages = storage.messages
               /\ task'[s].state = "running"]_vars

\* a channel that was created and then updated has been deleted: the event
\* carries the updated value, and the channel cache is empty again
C11_Witness ==
    /\ Len(last.events) = 2
    /\ last.events[2].name = "channel_delete"
    /\ last.events[2].arg.ver = NumVers
    /\ NumVers > 1
    /\ DOMAIN storage.channels = {}

\* C12: a GUILD_DELETE without "unavailable", or a CHANNEL_DELETE, for an id
\* that is in no cache is skipped: no event but the raw "socket_recieve" is
\* dispatched, the caches are as before and the listen task goes on.
C12_DeleteMissIsSkipped ==
    [][\A s \in Shards :
        /\ \A b \in GuildRemoveBodies :
            (HandleFrame(s, b) /\ ToInt(b.id) \notin DOMAIN storage.guilds)
                => /\ task'[s].state = "running"
                   /\ storage' = storage
                   /\ last'.events = <<Received>>
        /\ \A b \in ChannelDeleteBodies :
            (HandleFrame(s, b) /\ ToInt(b.id) \notin DOMAIN storage.channels)
                => /\ task'[s].state = "running"
                   /\ storage' = storage
                   /\ last'.events = <<Received>>]_vars

\* C13: a frame that lacks an envelope field is discarded: the caches and the
\* sequence are as before and the listen task goes on to the next frame.
C13_MalformedFrameIsDiscarded ==
    [][\A s \in Shards, b \in BareBodies :
        HandleFrame(s, b)
            => /\ task'[s].state = "running"
               /\ storage' = storage
               /\ gwSequence' = gwSequence]_vars

(***************************************************************************)
(* Guild ownership                                                         *)
(***************************************************************************)
\* C16: for every guild id and num_shards > 0, exactly one shard_id below
\* num_shards owns the guild; every answer a shard gave is "yes" for the
\* shard_id (guild_id >> 22) mod num_shards and "no" for every other, and
\* asking again never gives a second answer.
C16_ExactlyOneOwner ==
    own.guild_id # None =>
        LET owner == (own.guild_id \div 4194304) % own.num_shards IN
        /\ Cardinality({i \in 0 .. own.num_shards - 1 :
                contains_guild(i, own.num_shards, own.guild_id)}) = 1
        /\ \A i \in DOMAIN own.answers :
                /\ own.answers[i] \subseteq {i = owner}
                /\ Cardinality(own.answers[i]) <= 1

\* each of three shards has answered for guild id 2 * 2^22 + 1, whose high
\* part is 2 modulo 3 while the id itself is 0 modulo 3: shard 2 alone owns it
C16_Witness ==
    /\ own.num_shards = 3
    /\ own.guild_id = 2 * 4194304 + 1
    /\ own.answers = (0 :> {FALSE} @@ 1 :> {FALSE} @@ 2 :> {TRUE})

(***************************************************************************)
(* Heartbeat acknowledgement                                               *)
(***************************************************************************)
AckBodies == {b \in Bodies : b.op = HEARTBEATACK}

\* C14: a HeartbeatAck that the receive loop handles while the monitor
\* awaits one takes the monitor from AwaitingAck back to Running, so that the
\* next scheduled heartbeat of an acknowledged session does not make it
\* Zombie.
C14_AckReachesMonitor ==
    [][\A s \in Shards, b \in AckBodies :
        (HandleFrame(s, b) /\ hb[s] = "AwaitingAck") => hb'[s] = "Running"]_vars

(***************************************************************************)
(* Reconnect after a dropped socket                                        *)
(***************************************************************************)
\* C15: when the socket of a session that holds a session_id and a sequence
\* is closed, and not by the client, then eventually a resume frame carrying
\* that session_id and that sequence is written on a socket opened after it,
\* or at least a call of the shard's coroutines is under way.
C15_DropLeadsToResume ==
    \A s \in Shards, sid \in SessionIds, q \in Sequences, n \in 1 .. MaxConn :
        (Dropped(s) /\ ws[s] = n /\ session_id[s] = sid /\ sequence[s] = q)
            ~> \/ /\ wire.op = RESUME /\ wire.shard = s
                  /\ wire.a = sid /\ wire.b = q /\ wire.sock > n
               \/ \E t \in Tasks : ShardOf(t) = s /\ pc[t] # "idle"

(***************************************************************************)
(* Readiness                                                               *)
(***************************************************************************)
ReadyBodies == {b \in Bodies : b.kind = "json" /\ b.t = "READY"}

\* C17: handling a READY frame sets the shard's ready event, and a call of
\* wait_until_ready() blocks while the event is not set and returns when it
\* is: it ends in no other way.
C17_ReadySetsEvent ==
    [][\A s \in Shards :
        /\ \A b \in ReadyBodies : HandleFrame(s, b) => ready_event'[s]
        /\ WaitUntilReady(s)
                => waiter'[s] = (IF ready_event[s] THEN "released" ELSE "waiting")]_vars

(***************************************************************************)
(* The order of disconnect                                                 *)
(***************************************************************************)
\* C18: when disconnect() closes the socket, the heartbeat has been ended and
\* the listen task is no longer running: it was cancelled before the close.
C18_CancelBeforeClose ==
    [][\A t \in Tasks :
        (DisconnectCall(t) /\ closedWith' # closedWith)
            => /\ keep_alive'[ShardOf(t)].ended
               /\ task[ShardOf(t)].state # "running"]_vars

(***************************************************************************)
(* Writers of one socket                                                   *)
(***************************************************************************)
\* C19: at no time are two senders inside a write on the same socket.
C19_OneWriterPerSocket ==
    \A s \in Shards : Cardinality(Writers(s)) <= 1

(***************************************************************************)
(* Sessions side by side                                                   *)
(***************************************************************************)
\* C20: the sequence, session_id and gateway_version that the frames of one
\* session have left are not changed by a frame that another session
\* receives.
C20_FrameTouchesOwnSessionOnly ==
    [][\A s \in Shards, b \in Bodies :
        (HandleFrame(s, b) /\ last.shard \in Shards \ {s})
            => /\ gwSequence' = gwSequence
               /\ client'.session_id = client.session_id
               /\ client'.gateway_version = client.gateway_version]_vars

(***************************************************************************)
(* The resuming flag                                                       *)
(***************************************************************************)
\* C21: a READY frame, or an InvalidSession op, handled by a session whose
\* resuming flag is set, leaves the flag cleared.
C21_AnswerClearsResuming ==
    [][\A s \in Shards, b \in Bodies :
        (HandleFrame(s, b) /\ resuming[s]
            /\ (b.op = INVALIDSESSION \/ b.t = "READY"))
            => ~resuming'[s]]_vars

(***************************************************************************)
(* READY                                                                   *)
(***************************************************************************)
\* C22: handling a READY frame stores the frame's session_id and version,
\* puts the user into the user cache under the user's id and dispatches
\* "ready" once; the subscriber of "ready" finds the session_id, the version
\* and the cached user already stored.
C22_ReadyFiresAfterStore ==
    [][\A s \in Shards, b \in ReadyBodies :
        HandleFrame(s, b)
            => /\ client'.session_id = b.session_id
               /\ client'.gateway_version = b.ver
               /\ ToInt(b.id) \in DOMAIN storage'.users
               /\ storage'.users[ToInt(b.id)] = client'.user
               /\ Times(last'.events, "ready") = 1
               /\ atReady' = View(client', storage')]_vars

(***************************************************************************)
(* Arrival order                                                           *)
(***************************************************************************)
\* C23: the frames of one socket are handled in the order of their arrival,
\* each one whole: the i-th frame handled is the i-th that arrived, the
\* sequence numbers stored go up in that order, and the sequence and the
\* events that stand last are those of the frame handled last.
C23_HandledInArrivalOrder ==
    \A s \in Shards :
        /\ \A i \in DOMAIN done[s] : done[s][i].n = i
        /\ \A i, j \in DOMAIN done[s] :
                (i < j /\ done[s][i].seq # None /\ done[s][j].seq # None)
                    => done[s][i].seq < done[s][j].seq
        /\ (done[s] # <<>> /\ last.shard = s)
                => /\ gwSequence = done[s][Len(done[s])].seq
                   /\ last.events = done[s][Len(done[s])].events
        /\ \A k \in DOMAIN inbox[s] : inbox[s][k].n = Len(done[s]) + k

\* two frames that each cached a guild have been handled, in the order of
\* their sequence numbers, while a third frame waits in the socket
C23_Witness ==
    \E s \in Shards :
        /\ Len(done[s]) = 2
        /\ Len(inbox[s]) = 1
        /\ done[s][1].seq = 1 /\ done[s][2].seq = 2
        /\ Times(done[s][1].events, "guild_create") = 1
        /\ Times(done[s][2].events, "guild_create") = 1
====
